---------------------------- MODULE Spec2Model ----------------------------
(***************************************************************************)
(* SentinelNet dashboard (src/app.py): one Streamlit script that is run    *)
(* top to bottom for the first render of a session and again for every     *)
(* widget interaction.  Script variables (alerts_df, df, ...) are rebuilt  *)
(* by every run; st.session_state and the widget values live as long as    *)
(* the session.                                                            *)
(*                                                                         *)
(* Time is counted in whole seconds.  A string the code lower- or          *)
(* upper-cases is a sequence of one-character strings, so that the case    *)
(* conversions are computed character by character.  A DataFrame is a      *)
(* record [columns, rows]: the column names in column order and the rows   *)
(* in index order, each row a record keyed by column name.                 *)
(***************************************************************************)
EXTENDS Integers, Sequences, FiniteSets, TLC

VARIABLES
    clock,          \* the wall clock read by pd.Timestamp.now()
    pc,             \* position of the script run
    HIGH_COUNT,     \* app.py:84, a configuration input of the session
    MEDIUM_COUNT,   \* app.py:85
    NORMAL_COUNT,   \* app.py:86
    base_time,      \* app.py:88
    alerts_df,      \* app.py:94
    session_state,  \* st.session_state: key -> value
    attack_filter,  \* value of the "Attack Type" selectbox
    severity_filter,\* value of the "Severity Level" multiselect
    df,             \* app.py:172-177, the filtered view
    trend,          \* app.py:198
    critical_out,   \* what the high-severity section shows, app.py:251-259
    csv,            \* data of the download button, app.py:266
    now_at_shift,   \* history: the instant read at app.py:124 in this session
    first_render_ts,\* history: timestamps the first render's filter read
    attack,         \* argument of a stand-alone classify_severity call
    result          \* its return value (NoResult before the call returns)

vars == <<clock, pc, HIGH_COUNT, MEDIUM_COUNT, NORMAL_COUNT, base_time,
          alerts_df, session_state, attack_filter, severity_filter, df,
          trend, critical_out, csv, now_at_shift, first_render_ts,
          attack, result>>

-----------------------------------------------------------------------------
(* Bounds of the model *)

MaxCount == 2
MaxTick == 1
MaxElapsed == 2
StartClock == 21895
MaxStrLen == 3

(* Program constants *)

SixHours == 21600
HighFreq == 10
MediumFreq == 300
NormalFreq == 300
TrendFreq == 300
CriticalTail == 10

-----------------------------------------------------------------------------
(* Strings *)

UpperAlpha ==
    <<"A","B","C","D","E","F","G","H","I","J","K","L","M",
      "N","O","P","Q","R","S","T","U","V","W","X","Y","Z">>

LowerAlpha ==
    <<"a","b","c","d","e","f","g","h","i","j","k","l","m",
      "n","o","p","q","r","s","t","u","v","w","x","y","z">>

IndexIn(c, alpha) ==
    IF \E i \in 1..Len(alpha) : alpha[i] = c
    THEN CHOOSE i \in 1..Len(alpha) : alpha[i] = c
    ELSE 0

LowerChar(c) ==
    IF IndexIn(c, UpperAlpha) # 0 THEN LowerAlpha[IndexIn(c, UpperAlpha)] ELSE c

UpperChar(c) ==
    IF IndexIn(c, LowerAlpha) # 0 THEN UpperAlpha[IndexIn(c, LowerAlpha)] ELSE c

Lower(s) == [i \in 1..Len(s) |-> LowerChar(s[i])]

Upper(s) == [i \in 1..Len(s) |-> UpperChar(s[i])]

S_dos == <<"d","o","s">>
S_ddos == <<"d","d","o","s">>
S_u2r == <<"u","2","r">>
S_r2l == <<"r","2","l">>
S_probe == <<"p","r","o","b","e">>
S_backdoor == <<"b","a","c","k","d","o","o","r">>
S_worm == <<"w","o","r","m">>
S_normal == <<"n","o","r","m","a","l">>
S_other == <<"o","t","h","e","r">>
S_All == <<"A","l","l">>

-----------------------------------------------------------------------------
(* Severity classification *)

HIGH_SEVERITY == <<S_dos, S_ddos, S_u2r, S_r2l, S_probe, S_backdoor, S_worm>>

InList(x, list) == \E i \in 1..Len(list) : list[i] = x

classify_severity_nolower(a) ==
    IF InList(a, HIGH_SEVERITY) THEN "HIGH"
    ELSE IF a = S_normal THEN "NORMAL"
    ELSE "MEDIUM"

classify_severity(a) ==
    LET low == Lower(a)
    IN  IF InList(low, HIGH_SEVERITY) THEN "HIGH"
        ELSE IF low = S_normal THEN "NORMAL"
        ELSE "MEDIUM"


-----------------------------------------------------------------------------
(* Data frames *)

NoFrame == [columns |-> <<>>, rows |-> <<>>]

Column(frame, c) == [i \in 1..Len(frame.rows) |-> frame.rows[i][c]]

(* frame[cols]: the named columns, in the order asked for *)
Project(frame, cols) ==
    [columns |-> cols,
     rows |-> [i \in 1..Len(frame.rows) |->
                 [c \in {cols[j] : j \in 1..Len(cols)} |-> frame.rows[i][c]]]]

(* frame[c] = values: a new column is appended after the existing ones *)
WithColumn(frame, c, values) ==
    [columns |-> Append(frame.columns, c),
     rows |-> [i \in 1..Len(frame.rows) |-> frame.rows[i] @@ (c :> values[i])]]

(* frame[mask], mask a boolean column: the rows whose mask is true, in     *)
(* index order                                                             *)
Mask(frame, mask) ==
    LET kept == SelectSeq([i \in 1..Len(frame.rows) |-> i], LAMBDA i : mask[i])
    IN  [columns |-> frame.columns,
         rows |-> [k \in 1..Len(kept) |-> frame.rows[kept[k]]]]

(* Series.max() of a non-empty integer column *)
SeriesMax(col) ==
    CHOOSE m \in {col[i] : i \in 1..Len(col)} : \A j \in 1..Len(col) : col[j] <= m

(* frame.tail(n) *)
Tail_n(frame, n) ==
    [columns |-> frame.columns,
     rows |-> IF Len(frame.rows) <= n THEN frame.rows
              ELSE SubSeq(frame.rows, Len(frame.rows) - n + 1, Len(frame.rows))]

-----------------------------------------------------------------------------
(* Simulated data, app.py:84-101 *)

date_range_skip_first(start, periods, freq) ==
    [i \in 1..periods |-> start + i * freq]

date_range(start, periods, freq) ==
    [i \in 1..periods |-> start + (i - 1) * freq]

Repeat(x, n) == [i \in 1..n |-> x]

generate(base, high, medium, normal) ==
    LET timestamps_high == date_range(base, high, HighFreq)
        timestamps_medium == date_range(base, medium, MediumFreq)
        timestamps_normal == date_range(base, normal, NormalFreq)
        ts == timestamps_high \o timestamps_medium \o timestamps_normal
        at == Repeat(S_dos, high) \o Repeat(S_other, medium) \o Repeat(S_normal, normal)
    IN  [columns |-> <<"timestamp", "attack_type">>,
         rows |-> [i \in 1..Len(ts) |-> [timestamp |-> ts[i], attack_type |-> at[i]]]]

-----------------------------------------------------------------------------
(* Severity and label columns, app.py:117-118 *)

SeverityColumn(frame) ==
    [i \in 1..Len(frame.rows) |-> classify_severity(frame.rows[i].attack_type)]

LabelColumn(frame) ==
    [i \in 1..Len(frame.rows) |-> Upper(frame.rows[i].attack_type)]

add_severity_label_noupper(frame) ==
    LET classified == WithColumn(frame, "severity", SeverityColumn(frame))
    IN  WithColumn(classified, "label", Column(classified, "attack_type"))

add_severity_label(frame) ==
    LET classified == WithColumn(frame, "severity", SeverityColumn(frame))
    IN  WithColumn(classified, "label", LabelColumn(classified))

-----------------------------------------------------------------------------
(* Time shift, app.py:123-126.  Over an empty frame max() is NaT and       *)
(* adding NaT to an empty column changes nothing.                          *)

Shifted(frame, now) ==
    IF frame.rows = <<>> THEN frame
    ELSE LET shift == now - SeriesMax(Column(frame, "timestamp"))
         IN  [columns |-> frame.columns,
              rows |-> [i \in 1..Len(frame.rows) |->
                          [frame.rows[i] EXCEPT !.timestamp = @ + shift]]]

ShiftedToNow(frame, now) ==
    [columns |-> frame.columns,
     rows |-> [i \in 1..Len(frame.rows) |-> [frame.rows[i] EXCEPT !.timestamp = now]]]

time_shift_step_unguarded(frame, ss, now) ==
    [alerts_df |-> Shifted(frame, now),
     session_state |-> ss @@ ("time_shift" :> TRUE)]

time_shift_step_collapse(frame, ss, now) ==
    IF "time_shift" \notin DOMAIN ss
    THEN [alerts_df |-> ShiftedToNow(frame, now),
          session_state |-> ss @@ ("time_shift" :> TRUE)]
    ELSE [alerts_df |-> frame, session_state |-> ss]

time_shift_step(frame, ss, now) ==
    IF "time_shift" \notin DOMAIN ss
    THEN [alerts_df |-> Shifted(frame, now),
          session_state |-> ss @@ ("time_shift" :> TRUE)]
    ELSE [alerts_df |-> frame, session_state |-> ss]

-----------------------------------------------------------------------------
(* Filters, app.py:160-177 *)

SeverityOptions == <<"HIGH", "MEDIUM", "NORMAL">>

(* The selectbox offers "All" and every attack type of the data; the order *)
(* of the options decides only how they are displayed.                     *)
AttackOptions(frame) ==
    {S_All} \cup {frame.rows[i].attack_type : i \in 1..Len(frame.rows)}

(* frame[c] == value *)
Equals(frame, c, value) == [i \in 1..Len(frame.rows) |-> frame.rows[i][c] = value]

(* frame[c].isin(values) *)
IsIn(frame, c, values) == [i \in 1..Len(frame.rows) |-> frame.rows[i][c] \in values]

apply_filters_severity_only(frame, af, sf) ==
    Mask(frame, IsIn(frame, "severity", sf))

apply_filters(frame, af, sf) ==
    LET copy == frame
        byAttack == IF af # S_All
                    THEN Mask(copy, Equals(copy, "attack_type", af))
                    ELSE copy
    IN  Mask(byAttack, IsIn(byAttack, "severity", sf))

-----------------------------------------------------------------------------
(* Severity trend, app.py:198-202: groupby([Grouper(timestamp, 5T),        *)
(* severity]).size().reset_index(name="count").  The groups are the        *)
(* observed (window, severity) pairs, sorted by window and then severity.  *)

FloorTo(t, freq) == (t \div freq) * freq

FloorFromFirst(t, first, freq) == first + ((t - first) \div freq) * freq

(* the group key of every row: (window start, severity) *)
TrendKeys(frame) ==
    [i \in 1..Len(frame.rows) |->
       <<FloorTo(frame.rows[i].timestamp, TrendFreq), frame.rows[i].severity>>]

KeyLess(a, b) ==
    \/ a[1] < b[1]
    \/ a[1] = b[1] /\ IndexIn(a[2], SeverityOptions) < IndexIn(b[2], SeverityOptions)

RECURSIVE SortKeys(_)
SortKeys(S) ==
    IF S = {} THEN <<>>
    ELSE LET m == CHOOSE x \in S : \A y \in S \ {x} : KeyLess(x, y)
         IN  <<m>> \o SortKeys(S \ {m})

(* size() of the groups of rowKeys (one key per row), as a frame *)
GroupSizes(rowKeys) ==
    LET keys == SortKeys({rowKeys[i] : i \in 1..Len(rowKeys)})
    IN  [columns |-> <<"timestamp", "severity", "count">>,
         rows |-> [k \in 1..Len(keys) |->
                     [timestamp |-> keys[k][1],
                      severity |-> keys[k][2],
                      count |-> Cardinality({i \in 1..Len(rowKeys) : rowKeys[i] = keys[k]})]]]

severity_trend_from_first(frame) ==
    LET first == IF frame.rows = <<>> THEN 0 ELSE frame.rows[1].timestamp
    IN  GroupSizes([i \in 1..Len(frame.rows) |->
                      <<FloorFromFirst(frame.rows[i].timestamp, first, TrendFreq),
                        frame.rows[i].severity>>])

severity_trend(frame) == GroupSizes(TrendKeys(frame))

-----------------------------------------------------------------------------
(* High-severity table, app.py:251-259 *)

TableColumns == <<"timestamp", "label", "severity">>

critical_table_head(frame) ==
    LET critical == Mask(frame, Equals(frame, "severity", "HIGH"))
    IN  IF critical.rows = <<>>
        THEN [widget |-> "success", body |-> "No critical threats detected"]
        ELSE [widget |-> "dataframe",
              data |-> [columns |-> TableColumns,
                        rows |-> SubSeq(Project(critical, TableColumns).rows, 1,
                                        IF Len(critical.rows) <= CriticalTail
                                        THEN Len(critical.rows) ELSE CriticalTail)]]

critical_table(frame) ==
    LET critical == Mask(frame, Equals(frame, "severity", "HIGH"))
    IN  IF critical.rows = <<>>
        THEN [widget |-> "success", body |-> "No critical threats detected"]
        ELSE [widget |-> "dataframe",
              data |-> Tail_n(Project(critical, TableColumns), CriticalTail)]

-----------------------------------------------------------------------------
(* CSV download, app.py:264-269: df.to_csv(index=False) writes one header  *)
(* line naming every column of the frame in column order, then one line    *)
(* per row with the row's cells in the same order.  A line is kept as the  *)
(* sequence of its comma-separated fields.                                 *)

to_csv_table_columns(frame) ==
    [header |-> TableColumns,
     lines |-> [i \in 1..Len(frame.rows) |->
                  [j \in 1..Len(TableColumns) |-> frame.rows[i][TableColumns[j]]]]]

to_csv(frame) ==
    [header |-> frame.columns,
     lines |-> [i \in 1..Len(frame.rows) |->
                  [j \in 1..Len(frame.columns) |-> frame.rows[i][frame.columns[j]]]]]

-----------------------------------------------------------------------------
(* The session *)

NoResult == "-"
NoInstant == 0
NoOutput == [widget |-> "none"]
NoCsv == [header |-> <<>>, lines |-> <<>>]

MaxClock == StartClock + MaxElapsed

(* app.py:84-86 sets the three counts to 15799, 100 and 100.  A session    *)
(* here starts with counts from small ranges instead; HIGH_COUNT also      *)
(* takes a value above the length of the high-severity table, so that the  *)
(* table is cut.                                                           *)
HighCounts == (0..MaxCount) \cup {CriticalTail + 1}

Ticks == {d \in 0..MaxTick : clock + d <= MaxClock}

InitSession ==
    /\ clock = StartClock
    /\ pc = "generate"
    /\ HIGH_COUNT \in HighCounts
    /\ MEDIUM_COUNT \in 0..MaxCount
    /\ NORMAL_COUNT \in 0..MaxCount
    /\ base_time = NoInstant
    /\ alerts_df = NoFrame
    /\ session_state = <<>>
    /\ attack_filter = S_All
    /\ severity_filter = {"HIGH", "MEDIUM", "NORMAL"}
    /\ df = NoFrame
    /\ trend = NoFrame
    /\ critical_out = NoOutput
    /\ csv = NoCsv
    /\ now_at_shift = NoInstant
    /\ first_render_ts = <<>>

Init ==
    /\ InitSession
    /\ attack = <<>>
    /\ result = NoResult

(* app.py:84-101 *)
Generate ==
    /\ pc = "generate"
    /\ \E d \in Ticks :
         /\ clock' = clock + d
         /\ base_time' = clock' - SixHours
         /\ alerts_df' = generate(base_time', HIGH_COUNT, MEDIUM_COUNT, NORMAL_COUNT)
    /\ pc' = "classify"
    /\ UNCHANGED <<HIGH_COUNT, MEDIUM_COUNT, NORMAL_COUNT, session_state,
                   attack_filter, severity_filter, df, trend, critical_out, csv,
                   now_at_shift, first_render_ts, attack, result>>

(* app.py:117-118 *)
Classify ==
    /\ pc = "classify"
    /\ alerts_df' = add_severity_label(alerts_df)
    /\ pc' = "time_shift"
    /\ UNCHANGED <<clock, HIGH_COUNT, MEDIUM_COUNT, NORMAL_COUNT, base_time,
                   session_state, attack_filter, severity_filter, df, trend,
                   critical_out, csv, now_at_shift, first_render_ts, attack, result>>

(* app.py:123-126; the clock is read only inside the guarded block *)
TimeShift ==
    /\ pc = "time_shift"
    /\ \E d \in Ticks :
         LET first == "time_shift" \notin DOMAIN session_state
             now == clock + d
             r == time_shift_step(alerts_df, session_state, now)
         IN  /\ first \/ d = 0
             /\ clock' = now
             /\ alerts_df' = r.alerts_df
             /\ session_state' = r.session_state
             /\ now_at_shift' = IF first THEN now ELSE now_at_shift
             /\ first_render_ts' = IF first THEN Column(r.alerts_df, "timestamp")
                                   ELSE first_render_ts
    /\ pc' = "filter"
    /\ UNCHANGED <<HIGH_COUNT, MEDIUM_COUNT, NORMAL_COUNT, base_time,
                   attack_filter, severity_filter, df, trend, critical_out, csv,
                   attack, result>>

(* app.py:160-177 *)
Filter ==
    /\ pc = "filter"
    /\ df' = apply_filters(alerts_df, attack_filter, severity_filter)
    /\ pc' = "trend"
    /\ UNCHANGED <<clock, HIGH_COUNT, MEDIUM_COUNT, NORMAL_COUNT, base_time,
                   alerts_df, session_state, attack_filter, severity_filter,
                   trend, critical_out, csv, now_at_shift, first_render_ts,
                   attack, result>>

(* app.py:196-216 *)
Trend ==
    /\ pc = "trend"
    /\ trend' = severity_trend(df)
    /\ pc' = "critical"
    /\ UNCHANGED <<clock, HIGH_COUNT, MEDIUM_COUNT, NORMAL_COUNT, base_time,
                   alerts_df, session_state, attack_filter, severity_filter, df,
                   critical_out, csv, now_at_shift, first_render_ts, attack, result>>

(* app.py:249-259 *)
Critical ==
    /\ pc = "critical"
    /\ critical_out' = critical_table(df)
    /\ pc' = "download"
    /\ UNCHANGED <<clock, HIGH_COUNT, MEDIUM_COUNT, NORMAL_COUNT, base_time,
                   alerts_df, session_state, attack_filter, severity_filter, df,
                   trend, csv, now_at_shift, first_render_ts, attack, result>>

(* app.py:264-269 *)
Download ==
    /\ pc = "download"
    /\ csv' = to_csv(df)
    /\ pc' = "done"
    /\ UNCHANGED <<clock, HIGH_COUNT, MEDIUM_COUNT, NORMAL_COUNT, base_time,
                   alerts_df, session_state, attack_filter, severity_filter, df,
                   trend, critical_out, now_at_shift, first_render_ts, attack, result>>

(* The user changes a filter widget: Streamlit stores the new widget       *)
(* values and runs the script again from the top with fresh script         *)
(* variables; st.session_state is kept.                                    *)
Interact ==
    /\ pc = "done"
    /\ attack_filter' \in AttackOptions(alerts_df)
    /\ severity_filter' \in SUBSET {SeverityOptions[i] : i \in 1..Len(SeverityOptions)}
    /\ base_time' = NoInstant
    /\ alerts_df' = NoFrame
    /\ df' = NoFrame
    /\ trend' = NoFrame
    /\ critical_out' = NoOutput
    /\ csv' = NoCsv
    /\ pc' = "generate"
    /\ UNCHANGED <<clock, HIGH_COUNT, MEDIUM_COUNT, NORMAL_COUNT, session_state,
                   now_at_shift, first_render_ts, attack, result>>

Next ==
    \/ Generate
    \/ Classify
    \/ TimeShift
    \/ Filter
    \/ Trend
    \/ Critical
    \/ Download
    \/ Interact

Spec == Init /\ [][Next]_vars

-----------------------------------------------------------------------------
(* classify_severity on its own: any string may be passed, app.py:108-115  *)

Alphabet == {"d", "o", "s", "D", "O", "S"}

SampleAttacks ==
    {HIGH_SEVERITY[i] : i \in 1..Len(HIGH_SEVERITY)}
    \cup {Upper(HIGH_SEVERITY[i]) : i \in 1..Len(HIGH_SEVERITY)}
    \cup {S_normal, Upper(S_normal), <<"N","o","r","m","a","l">>,
          S_other, Upper(S_other), S_All,
          S_normal \o <<" ">>, <<"x">> \o S_dos, S_dos \o <<"1">>,
          <<"W","o","R","m">>, <<"u","n","k","n","o","w","n">>}

AttackInputs ==
    UNION {[1..n -> Alphabet] : n \in 0..MaxStrLen} \cup SampleAttacks

InitClassify ==
    /\ InitSession
    /\ HIGH_COUNT = 0 /\ MEDIUM_COUNT = 0 /\ NORMAL_COUNT = 0
    /\ attack \in AttackInputs
    /\ result = NoResult

ClassifyCall ==
    /\ result = NoResult
    /\ result' = classify_severity(attack)
    /\ UNCHANGED <<clock, pc, HIGH_COUNT, MEDIUM_COUNT, NORMAL_COUNT, base_time,
                   alerts_df, session_state, attack_filter, severity_filter, df,
                   trend, critical_out, csv, now_at_shift, first_render_ts, attack>>

NextCall ==
    /\ result # NoResult
    /\ attack' \in AttackInputs
    /\ result' = NoResult
    /\ UNCHANGED <<clock, pc, HIGH_COUNT, MEDIUM_COUNT, NORMAL_COUNT, base_time,
                   alerts_df, session_state, attack_filter, severity_filter, df,
                   trend, critical_out, csv, now_at_shift, first_render_ts>>

NextClassify ==
    \/ ClassifyCall
    \/ NextCall

SpecClassify == InitClassify /\ [][NextClassify]_vars

-----------------------------------------------------------------------------
(* Properties *)

Timestamps(frame) == Column(frame, "timestamp")

Flagged(ss) == "time_shift" \in DOMAIN ss

AfterShift == pc \in {"filter", "trend", "critical", "download", "done"}

Min(a, b) == IF a <= b THEN a ELSE b

(* C1: within a session the alignment step shifts timestamps at most once. *)
(* The session flag time_shift is set once the first render has passed the *)
(* step and is never cleared; a run of the step that finds the flag set    *)
(* leaves every timestamp of the dataset it is given unchanged; timestamps *)
(* change in the step only when the flag was not yet set; and applying the *)
(* step twice gives the same timestamps as applying it once.               *)
C1_ShiftAtMostOnce ==
    [][ /\ Flagged(session_state) => Flagged(session_state')
        /\ pc = "time_shift" => Flagged(session_state')
        /\ pc = "time_shift" /\ Flagged(session_state)
             => Timestamps(alerts_df') = Timestamps(alerts_df)
        /\ pc = "time_shift" /\ Timestamps(alerts_df') # Timestamps(alerts_df)
             => ~Flagged(session_state)
        /\ pc = "time_shift" =>
             \A d1, d2 \in 0..MaxTick :
                LET once == time_shift_step(alerts_df, session_state, clock + d1)
                    twice == time_shift_step(once.alerts_df, once.session_state,
                                             clock + d1 + d2)
                IN  Timestamps(twice.alerts_df) = Timestamps(once.alerts_df)
      ]_vars

(* A later render has passed the alignment step with the flag set: the     *)
(* dataset it was given is not the one the first render aligned.           *)
C1_Witness ==
    /\ pc = "filter"
    /\ Flagged(session_state)
    /\ alerts_df.rows # <<>>
    /\ Timestamps(alerts_df) # first_render_ts

(* C2: in every render, the first and every re-render, the dataset the     *)
(* filter and the aggregation read is the aligned one: its maximum         *)
(* timestamp is the instant that was used to compute the shift, and its    *)
(* timestamps are the same in every render of the session.                 *)
C2_AlignedInEveryRender ==
    AfterShift /\ alerts_df.rows # <<>>
        => /\ SeriesMax(Timestamps(alerts_df)) = now_at_shift
           /\ Timestamps(alerts_df) = first_render_ts

(* a matches the lower-case word w up to the case of its letters *)
SameIgnoringCase(a, w) ==
    /\ Len(a) = Len(w)
    /\ \A i \in 1..Len(w) : a[i] = w[i] \/ a[i] = UpperChar(w[i])

(* C3: classify_severity returns a value for every string: HIGH when the   *)
(* string is, ignoring case, one of dos, ddos, u2r, r2l, probe, backdoor,  *)
(* worm; NORMAL when it is, ignoring case, "normal"; MEDIUM otherwise.     *)
C3_ClassifyTotal ==
    result # NoResult =>
        LET high == \E w \in {S_dos, S_ddos, S_u2r, S_r2l, S_probe, S_backdoor, S_worm} :
                        SameIgnoringCase(attack, w)
            normal == SameIgnoringCase(attack, S_normal)
        IN  /\ result \in {"HIGH", "MEDIUM", "NORMAL"}
            /\ high => result = "HIGH"
            /\ normal => result = "NORMAL"
            /\ ~high /\ ~normal => result = "MEDIUM"

(* A high-severity name written with capital letters was classified. *)
C3_Witness ==
    /\ result = "HIGH"
    /\ attack # <<>>
    /\ \E i \in 1..Len(attack) : IndexIn(attack[i], UpperAlpha) # 0

(* C4: after classification, after the shift and after any filtering,      *)
(* every event of the base dataset and of the filtered view has            *)
(* severity = classify_severity(attack_type) and label = the upper-cased   *)
(* attack_type.                                                            *)
C4_SeverityDerived ==
    pc \in {"time_shift", "filter", "trend", "critical", "download", "done"} =>
        \A frame \in {alerts_df, df} :
            \A i \in 1..Len(frame.rows) :
                LET e == frame.rows[i]
                IN  /\ e.severity = classify_severity(e.attack_type)
                    /\ e.label = Upper(e.attack_type)

(* A render of a session whose shift has been applied has finished with a *)
(* filtered view that keeps some events and drops others.                  *)
C4_Witness ==
    /\ pc = "done"
    /\ Flagged(session_state)
    /\ df.rows # <<>>
    /\ Len(df.rows) < Len(alerts_df.rows)

(* C5: the filter step leaves the base dataset unchanged and makes the     *)
(* filtered view exactly the events e of the base dataset, in dataset      *)
(* order, with (attack choice = "All" or e.attack_type = attack choice)    *)
(* and e.severity among the severity choices, whatever was chosen before;  *)
(* "All" with all three severities gives the full dataset, an empty        *)
(* severity choice gives an empty view.                                    *)
C5_FilterConjunctive ==
    [][ pc = "filter" =>
          LET Matches(e) == /\ attack_filter = S_All \/ e.attack_type = attack_filter
                            /\ e.severity \in severity_filter
          IN  /\ alerts_df' = alerts_df
              /\ df'.columns = alerts_df.columns
              /\ df'.rows = SelectSeq(alerts_df.rows, Matches)
              /\ attack_filter = S_All /\ severity_filter = {"HIGH", "MEDIUM", "NORMAL"}
                   => df' = alerts_df
              /\ severity_filter = {} => df'.rows = <<>>
      ]_vars

(* A view was computed for one attack type and two of the severities,      *)
(* and it keeps some events and drops others.                              *)
C5_Witness ==
    /\ pc = "trend"
    /\ attack_filter # S_All
    /\ Cardinality(severity_filter) = 2
    /\ df.rows # <<>>
    /\ Len(df.rows) < Len(alerts_df.rows)

(* C6 as stated: the CSV export of every filtered view has the header      *)
(* timestamp,label,severity and one data row per event of the view.        *)
C6_HeaderTimestampLabelSeverity ==
    pc = "done" =>
        /\ csv.header = <<"timestamp", "label", "severity">>
        /\ Len(csv.lines) = Len(df.rows)

(* C6 amended: the CSV export of every filtered view, the empty one        *)
(* included, has the header timestamp,attack_type,severity,label (every    *)
(* column of the view, in column order) and then one data row per event    *)
(* of the view, in the view's order, holding the event's four values in    *)
(* that order; for an empty view it is the header alone.                   *)
C6_CsvAllColumns ==
    pc = "done" =>
        /\ csv.header = <<"timestamp", "attack_type", "severity", "label">>
        /\ Len(csv.lines) = Len(df.rows)
        /\ \A i \in 1..Len(df.rows) :
              LET e == df.rows[i]
              IN  csv.lines[i] = <<e.timestamp, e.attack_type, e.severity, e.label>>
        /\ df.rows = <<>> => csv.lines = <<>>

(* A non-empty view that drops some events was exported. *)
C6_Witness ==
    /\ pc = "done"
    /\ csv.lines # <<>>
    /\ Len(csv.lines) < Len(alerts_df.rows)

(* C7: the generated dataset has HIGH_COUNT + MEDIUM_COUNT + NORMAL_COUNT  *)
(* events: first the high events, "dos" at T + 10 s * i, then the medium   *)
(* events, "other" at T + 5 min * j, then the normal events, "normal" at   *)
(* T + 5 min * k, T being the base instant.                                *)
C7_GeneratorConcatenation ==
    pc = "classify" =>
        LET rows == alerts_df.rows
            h == HIGH_COUNT
            m == MEDIUM_COUNT
            n == NORMAL_COUNT
            T == base_time
        IN  /\ Len(rows) = h + m + n
            /\ \A i \in 0..(h - 1) :
                  rows[1 + i] = [timestamp |-> T + 10 * i, attack_type |-> S_dos]
            /\ \A j \in 0..(m - 1) :
                  rows[h + 1 + j] = [timestamp |-> T + 300 * j, attack_type |-> S_other]
            /\ \A k \in 0..(n - 1) :
                  rows[h + m + 1 + k] = [timestamp |-> T + 300 * k, attack_type |-> S_normal]

(* A dataset with at least two events of each kind was generated. *)
C7_Witness ==
    /\ pc = "classify"
    /\ HIGH_COUNT >= 2 /\ MEDIUM_COUNT >= 2 /\ NORMAL_COUNT >= 2

(* C8: the alignment step adds one offset to every timestamp and changes   *)
(* nothing else: the difference of any two events' timestamps, the number  *)
(* and position of the events, the columns, and every event's attack_type, *)
(* severity and label are the same before and after it.                    *)
C8_ShiftPreservesSpacing ==
    [][ pc = "time_shift" =>
          LET old == alerts_df.rows
              new == alerts_df'.rows
          IN  /\ alerts_df'.columns = alerts_df.columns
              /\ Len(new) = Len(old)
              /\ \A i, j \in 1..Len(old) :
                    new[i].timestamp - new[j].timestamp
                      = old[i].timestamp - old[j].timestamp
              /\ \A i \in 1..Len(old) :
                    /\ new[i].attack_type = old[i].attack_type
                    /\ new[i].severity = old[i].severity
                    /\ new[i].label = old[i].label
      ]_vars

(* The first render has shifted a dataset whose events lie at different    *)
(* instants: the first event no longer lies at the base instant.           *)
C8_Witness ==
    /\ pc = "filter"
    /\ alerts_df.rows # <<>>
    /\ Timestamps(alerts_df) = first_render_ts
    /\ alerts_df.rows[1].timestamp # base_time
    /\ \E i \in 1..Len(alerts_df.rows) :
          alerts_df.rows[i].timestamp # alerts_df.rows[1].timestamp

(* C9: the high-severity section shows, for a view without HIGH events     *)
(* (the empty view included), the success notice and no table, and         *)
(* otherwise the last min(10, k) of the view's k HIGH rows in the view's   *)
(* order.                                                                  *)
C9_CriticalTable ==
    pc \in {"download", "done"} =>
        LET highs == SelectSeq(df.rows, LAMBDA e : e.severity = "HIGH")
            k == Len(highs)
            shown == Min(10, k)
        IN  /\ k = 0 => critical_out.widget = "success"
            /\ k > 0 =>
                 /\ critical_out.widget = "dataframe"
                 /\ Len(critical_out.data.rows) = shown
                 /\ \A i \in 1..shown :
                       LET e == highs[k - shown + i]
                           row == critical_out.data.rows[i]
                       IN  /\ row.timestamp = e.timestamp
                           /\ row.label = e.label
                           /\ row.severity = e.severity

(* A view with more than ten HIGH rows was rendered as a table. *)
C9_Witness ==
    /\ pc = "done"
    /\ critical_out.widget = "dataframe"
    /\ Len(SelectSeq(df.rows, LAMBDA e : e.severity = "HIGH")) > 10

RECURSIVE SumCounts(_)
SumCounts(rows) ==
    IF rows = <<>> THEN 0 ELSE Head(rows).count + SumCounts(Tail(rows))

(* C10: the severity trend has exactly one row per (5-minute window,       *)
(* severity) pair that holds an event of the view; windows start at        *)
(* multiples of 5 minutes; a row's count is the number of events of the    *)
(* view in its window with its severity; no count is zero; the counts add  *)
(* up to the size of the view.                                             *)
C10_TrendSparseCounts ==
    pc \in {"critical", "download", "done"} =>
        LET events == df.rows
            t == trend.rows
            In(e, row) == /\ row.timestamp <= e.timestamp
                          /\ e.timestamp < row.timestamp + 300
                          /\ e.severity = row.severity
        IN  /\ \A r \in 1..Len(t) :
                  /\ t[r].timestamp % 300 = 0
                  /\ t[r].count > 0
                  /\ t[r].count = Cardinality({i \in 1..Len(events) : In(events[i], t[r])})
            /\ \A r1, r2 \in 1..Len(t) :
                  r1 # r2 => <<t[r1].timestamp, t[r1].severity>>
                               # <<t[r2].timestamp, t[r2].severity>>
            /\ \A i \in 1..Len(events) : \E r \in 1..Len(t) : In(events[i], t[r])
            /\ SumCounts(t) = Len(events)

(* A trend with two windows of one severity and a row counting several     *)
(* events was computed.                                                    *)
C10_Witness ==
    /\ pc = "done"
    /\ \E r1, r2 \in 1..Len(trend.rows) :
          /\ trend.rows[r1].severity = trend.rows[r2].severity
          /\ trend.rows[r1].timestamp # trend.rows[r2].timestamp
    /\ \E r \in 1..Len(trend.rows) : trend.rows[r].count >= 2

=============================================================================
